---- MODULE Spec2Model ----
(***************************************************************************)
(* Model of the Gigacharger controller (kronaby_proxy).                    *)
(*                                                                         *)
(* The exported authorizeCharging() of gigacharger_utils.js (the module    *)
(* kept in src/README.md, lines 53-205) is modelled as a state machine:    *)
(* one process per invocation, the module-level variable                   *)
(* savedGigachargerSessionID shared by all of them, and one WebSocket of   *)
(* the `ws` library per invocation whose events (open, send callback,      *)
(* message, error, close) and whose 40 s timer are environment steps.      *)
(* A JavaScript promise settles once: resolve()/reject() after the first   *)
(* call are no-ops (Settle).  reject() does not leave the executor: the    *)
(* code after it keeps running.                                            *)
(*                                                                         *)
(* new WebSocket(url, opts) throws synchronously only for an invalid URL;  *)
(* the URL is the constant GIGACHARGER_WS_URL, so the catch blocks of      *)
(* lines 196-203 are unreachable and are not modelled.                     *)
(*                                                                         *)
(* Specifications:                                                         *)
(*   Spec         the invocations and their sockets, no fairness;          *)
(*   LiveSpec     the same steps with the fairness the runtime gives;      *)
(*   CookieSpec   obtainGigachargerSessionID applied to the Set-Cookie     *)
(*                list of a login response (lines 100-107);                *)
(*   MessageSpec  the message handler applied to the text of an inbound    *)
(*                message (lines 168-179);                                 *)
(*   GateSpec     requests for the password-gated routes of index.js       *)
(*                (src/index.js, lines 175-337);                           *)
(*   ToggleSpec   requests for /vehicle/toggle-lock while time passes      *)
(*                (src/index.js, lines 231-264);                           *)
(*   JobSpec      the daily charging job (src/index.js, lines 186-207);    *)
(*   FindSpec     one call of findVehicle (src/unnamed/part_000, lines     *)
(*                84-111).                                                 *)
(***************************************************************************)
EXTENDS Integers, Sequences, FiniteSets, TLC

\* ------------------------------------------------------------------ bounds
NumCalls == 2            \* invocations of authorizeCharging in one run

Calls == 1..NumCalls

\* --------------------------------------------------------------- JS values
Undefined == "<undefined>"               \* an unset variable / env entry
Truthy(v) == v # Undefined /\ v # ""     \* JS truthiness of string|undefined

\* Template literal `${v}`: undefined prints as the word undefined.
Str(v) == IF v = Undefined THEN "undefined" ELSE v

\* Values the environment may hold for the three env variables.
ChargerIds == {Undefined, "CH1"}
Emails     == {Undefined, "me@x"}
Passwords  == {Undefined, "pw"}
\* The environments considered: all three variables set, or one unset.
EnvConfigs ==
    {e \in ChargerIds \X Emails \X Passwords :
        Cardinality({k \in 1..3 : e[k] = Undefined}) <= 1}

\* Tokens a successful login may return: the vendor issues a new session
\* id on every login.
TokenOf(i) == "t" \o ToString(i)
Tokens == {TokenOf(i) : i \in Calls}
LoginFailed == "<login-failed>"
LoginResults(i) == {LoginFailed, TokenOf(i)}
AllLoginResults == Tokens \cup {LoginFailed}

\* WebSocket close codes: 1000 is the normal closure.
NormalClosure == 1000
AbnormalClosure == 1006
CloseCodes == {NormalClosure, AbnormalClosure}

\* Outcomes of the promise returned by authorizeCharging.
Pending            == "pending"
Success            == "success"
ConfigurationError == "No charger ID supplied"
CredentialError    == "No Gigacharger credentials supplied"
AuthenticationError == "Could not log in to Gigacharger"
SendError          == "error sending the start command"
ConnectionError    == "Could not connect to Gigacharger's WebSocket"
UnexpectedClosure  == "Unexpected connection closure"
Timeout            == "Gigacharger request timed out"
Failures == {ConfigurationError, CredentialError, AuthenticationError,
             SendError, ConnectionError, UnexpectedClosure, Timeout}
Outcomes == {Pending, Success} \cup Failures

VARIABLES
    MY_CHARGER_ID,              \* process.env.GIGACHARGER_MY_CHARGER_ID
    GIGACHARGER_EMAIL,          \* process.env.GIGACHARGER_EMAIL
    GIGACHARGER_PASSWORD,       \* process.env.GIGACHARGER_PASSWORD
    savedGigachargerSessionID,  \* the cached session token
    pc,            \* per invocation: "idle", "login" (awaiting), "ws"
    outcome,       \* per invocation: state of the returned promise
    tokenAtStart,  \* per invocation: the cached token when it started
    loginCalls,    \* per invocation: login POSTs issued
    loginResult,   \* per invocation: "none", or what its login returned
    wsState,       \* per invocation: NONE/CONNECTING/OPEN/CLOSING/CLOSED
    wsCookie,      \* per invocation: token presented in the Cookie header
    wsSent,        \* per invocation: frames sent on the connection
    wsGotMessage,  \* per invocation: an inbound message was delivered
    wsErrored,     \* per invocation: the error event was emitted
    wsCloseCode,   \* per invocation: code of the close event (0: none)
    sendCb,        \* per invocation: "none", "pending", "done"
    loginResponse, \* a login response: its Set-Cookie header
    sessionResult, \* what obtainGigachargerSessionID made of it
    msgData,       \* the text of an inbound message
    msgEnergy,     \* the energy value its handler logged
    msgResolved,   \* the value its handler passed to resolve()
    USAGE_PASSWORD,        \* process.env.USAGE_PASSWORD
    lastManualUnlockTime,  \* time of the last unlock by toggle-lock
    clock,         \* the wall clock, in minutes
    requests,      \* per HTTP request: route, password, position, ...
    responses,     \* per HTTP request: status codes sent with res.send
    commands,      \* commands posted to the vehicle API, in order
    jobPc,         \* daily job: "idle", "location", "authorize"
    jobRuns,       \* daily job: runs started so far
    jobLocation,   \* daily job: result of this run's location check
    jobAuthorizeCalls,  \* daily job: authorizeCharging() invocations
    jobLog,     \* daily job: lines written with logMessage and logError
    jobEscaped,    \* daily job: errors that left the job's callback
    numberOfFlashes,  \* findVehicle: its first argument
    useHorn,          \* findVehicle: its second argument
    findPc,        \* findVehicle: "idle", "wake", "honk", "flash", "done"
    findIndex,     \* findVehicle: the loop variable i
    findCommands,  \* findVehicle: the POST requests issued, in order
    findReply,     \* findVehicle: outcome of the last POST that returned
    findResult     \* findVehicle: "none", "returned" or the error thrown

envVars  == <<MY_CHARGER_ID, GIGACHARGER_EMAIL, GIGACHARGER_PASSWORD>>
callVars == <<pc, outcome, tokenAtStart, loginCalls, loginResult>>
wsVars   == <<wsState, wsCookie, wsSent, wsGotMessage, wsErrored,
              wsCloseCode, sendCb>>
textVars == <<loginResponse, sessionResult, msgData, msgEnergy, msgResolved>>
httpVars == <<USAGE_PASSWORD, lastManualUnlockTime, clock, requests,
              responses, commands>>
jobVars  == <<jobPc, jobRuns, jobLocation, jobAuthorizeCalls, jobLog,
              jobEscaped>>
findVars == <<numberOfFlashes, useHorn, findPc, findIndex, findCommands,
              findReply, findResult>>
serverVars == <<httpVars, jobVars, findVars>>
vars     == <<envVars, savedGigachargerSessionID, callVars, wsVars,
              textVars, serverVars>>

\* ---------------------------------------------------------------- helpers

\* Promise settlement: the first resolve()/reject() wins, later calls are
\* ignored.
Settle_first_lost(cur, new) == new
Settle(cur, new) == IF cur = Pending THEN new ELSE cur

\* Apply a list of resolve()/reject() calls in order.
RECURSIVE SettleAll(_, _)
SettleAll(cur, calls) ==
    IF calls = <<>> THEN cur
    ELSE SettleAll(Settle(cur, Head(calls)), Tail(calls))

\* `if (!savedGigachargerSessionID)`: a login is attempted only when no
\* (truthy) token is cached.
NeedsLogin_always(saved) == TRUE
NeedsLogin(saved) == ~Truthy(saved)

\* `savedGigachargerSessionID = await obtainGigachargerSessionID(...)`:
\* the cached token after the login returned r (a failed login leaves it).
SessionAfterLogin_not_cached(saved, r) == saved
SessionAfterLogin(saved, r) == IF r = LoginFailed THEN saved ELSE r

\* `if (!email || !password)`
CredentialsMissing(email, password) == ~Truthy(email) \/ ~Truthy(password)

\* formData.append(field, undefined): depending on the installed release
\* of form-data this throws a TypeError before any request is made, or
\* sends the text "undefined".  Both are outcomes an installation can
\* produce.
FormDataMayThrow(email, password) ==
    IF email = Undefined \/ password = Undefined THEN {TRUE, FALSE}
    ELSE {FALSE}

\* The text of the charge command built by the open handler.
ChargeCommand_unquoted(chargerID) == "[\"drain/start\"," \o Str(chargerID) \o "]"
ChargeCommand(chargerID) == "[\"drain/start\",\"" \o Str(chargerID) \o "\"]"

\* The close handler: which rejection a close code produces.
CloseRejection_normal_is_success(code) ==
    IF code # NormalClosure THEN UnexpectedClosure ELSE Success
CloseRejection(code) ==
    IF code # NormalClosure THEN UnexpectedClosure ELSE Timeout

\* ------------------------------------------------------------------- text
\* Texts are sequences of pieces; a text is the concatenation of its
\* pieces.  The pieces that the code searches for or splits on ("manix-sess",
\* "=", ";", "[", "]", ",") are pieces of their own and are contained in
\* no other piece, so searching the sequence is searching the text.

\* String.prototype.includes for a needle that is one piece.
Includes(text, piece) == \E k \in 1..Len(text) : text[k] = piece

\* `sep` is a prefix of `text`.
StartsWith(text, sep) ==
    Len(text) >= Len(sep) /\ SubSeq(text, 1, Len(sep)) = sep

\* String.prototype.split(sep) for a non-empty separator: the texts
\* between the occurrences of sep, scanned from the left.
RECURSIVE Split(_, _)
Split(text, sep) ==
    IF text = <<>> THEN << <<>> >>
    ELSE IF StartsWith(text, sep)
         THEN << <<>> >> \o Split(SubSeq(text, Len(sep) + 1, Len(text)), sep)
         ELSE LET rest == Split(Tail(text), sep)
              IN << <<Head(text)>> \o rest[1] >> \o Tail(rest)

\* The string a text denotes.
RECURSIVE Join(_)
Join(text) == IF text = <<>> THEN "" ELSE Head(text) \o Join(Tail(text))

\* --- the login response

\* Cookies a login response may carry, as the server writes them.
SessionCookieA  == <<"manix-sess", "=", "tokA", ";", " Path", "=", "/">>
SessionCookieB  == <<"manix-sess", "=", "tokB", ";">>
BareCookie      == <<"manix-sess", "=", "tokC">>
LangCookie      == <<"lang", "=", "en", ";", " Path", "=", "/">>
SigCookie       == <<"manix-sess", ".sig", "=", "sigA", ";">>
LegacyCookie    == <<"old-", "manix-sess", "=", "tokD", ";">>
CookieTexts ==
    {SessionCookieA, SessionCookieB, BareCookie, LangCookie, SigCookie,
     LegacyCookie}

\* Longest Set-Cookie list considered.
MaxCookies == 2

CookieLists == UNION {[1..n -> CookieTexts] : n \in 0..MaxCookies}

\* loginResponse.headers["set-cookie"]: absent (undefined) or a list.
LoginResponses ==
    {[present |-> FALSE, cookies |-> <<>>]}
        \cup {[present |-> TRUE, cookies |-> l] : l \in CookieLists}

\* Results of obtainGigachargerSessionID: a returned token, the Error of
\* line 103, or the TypeError of reading a property of undefined.
NoResult           == [kind |-> "none", token |-> <<>>]
Returned(token)    == [kind |-> "returned", token |-> token]
MissingCookieError == [kind |-> "no session cookie found", token |-> <<>>]
TypeError          == [kind |-> "TypeError", token |-> <<>>]

\* cookies.find(cookie => cookie.includes("manix-sess")): the index of the
\* first cookie that contains the text, 0 when there is none (find returns
\* undefined).
FindSessionCookie(cookies) ==
    LET hits == {k \in 1..Len(cookies) : Includes(cookies[k], "manix-sess")}
    IN IF hits = {} THEN 0
       ELSE CHOOSE k \in hits : \A m \in hits : k <= m

\* Lines 100-107 of obtainGigachargerSessionID, applied to a response.
ExtractSessionID(response) ==
    IF ~response.present
    THEN TypeError                  \* cookies.find on undefined
    ELSE LET cookies == response.cookies
             k == FindSessionCookie(cookies)
         IN IF k = 0
            THEN MissingCookieError
            ELSE LET parts == Split(cookies[k], <<"manix-sess", "=">>)
                 IN IF Len(parts) < 2
                    THEN TypeError  \* undefined.split
                    ELSE Returned(Split(parts[2], <<";">>)[1])
\* --- the inbound message

\* JavaScript values the message handler computes with: a number (kept as
\* a fraction), NaN, undefined; NoValue stands for "nothing yet".
JsNumber(num, den) == [kind |-> "number", num |-> num, den |-> den]
NaN         == [kind |-> "NaN", num |-> 0, den |-> 1]
JsUndefined == [kind |-> "undefined", num |-> 0, den |-> 1]
NoValue     == [kind |-> "none", num |-> 0, den |-> 1]

\* Numerals that occur in messages, and the number each denotes.
Numerals == {"0", "1", "1441", "2500", "7400", "10334", "0.001"}
NumeralValue(n) ==
    CASE n = "0"     -> JsNumber(0, 1)
      [] n = "1"     -> JsNumber(1, 1)
      [] n = "1441"  -> JsNumber(1441, 1)
      [] n = "2500"  -> JsNumber(2500, 1)
      [] n = "7400"  -> JsNumber(7400, 1)
      [] n = "10334" -> JsNumber(10334, 1)
      [] n = "0.001" -> JsNumber(1, 1000)

\* Number(text): the empty string is 0, a numeral is its value, any other
\* text is NaN.
NumberOf(text) ==
    IF text = <<>> THEN JsNumber(0, 1)
    ELSE IF Len(text) = 1 /\ text[1] \in Numerals THEN NumeralValue(text[1])
    ELSE NaN

\* array[index] with JavaScript's zero-based index.
ElementAt(array, index) ==
    IF index + 1 <= Len(array) THEN array[index + 1] ELSE JsUndefined

\* value / 1000
DivideBy1000(value) ==
    IF value.kind = "number" THEN JsNumber(value.num, value.den * 1000)
    ELSE NaN

\* data.match(/\[([^\]]+)\]/): the leftmost "[" that is followed by at
\* least one character other than "]" and then by "]"; the group is the
\* text between that "[" and the first "]" after it.
RegexMatch(data) ==
    LET ClosedAt(p, q) ==
            /\ data[q] = "]"
            /\ \A r \in (p + 1)..(q - 1) : data[r] # "]"
        starts == {p \in 1..Len(data) :
                      /\ data[p] = "["
                      /\ \E q \in (p + 2)..Len(data) : ClosedAt(p, q)}
    IN IF starts = {} THEN [found |-> FALSE, group |-> <<>>]
       ELSE LET p == CHOOSE x \in starts : \A y \in starts : x <= y
                q == CHOOSE x \in (p + 2)..Len(data) : ClosedAt(p, x)
            IN [found |-> TRUE, group |-> SubSeq(data, p + 1, q - 1)]

\* Lines 172-177: the number the handler logs as the energy transfer
\* (NoValue when the pattern does not match and nothing is logged).
EnergyLogged(data) ==
    LET match == RegexMatch(data)
    IN IF ~match.found THEN NoValue
       ELSE LET arrayString == match.group
                pieces == Split(arrayString, <<",">>)
                resultArray == [k \in 1..Len(pieces) |-> NumberOf(pieces[k])]
            IN DivideBy1000(ElementAt(resultArray, 1))

\* Readings a session message may report.
Readings == {"0", "1441", "2500", "10334"}

\* The reply the handler's comment documents:
\* ["session",[a,b,0.001,7400,1],null]
SessionReply(a, b) ==
    <<"[", "\"session\"", ",", "[", a, ",", b, ",", "0.001", ",", "7400",
      ",", "1", "]", ",", "null", "]">>
\* A flat array [a,b], and texts that are no array of numbers.
FlatReply(a, b) == <<"[", a, ",", b, "]">>
Replies ==
    {SessionReply(a, b) : a, b \in Readings}
        \cup {FlatReply(a, b) : a, b \in Readings}
        \cup {<<"ok">>, <<"[", "]">>, <<"[", "\"error\"", "]">>,
              <<"{", "\"error\"", "}">>}

\* No login response and no message are under study.
TextIdle ==
    /\ loginResponse = [present |-> FALSE, cookies |-> <<>>]
    /\ sessionResult = NoResult
    /\ msgData = <<>>
    /\ msgEnergy = NoValue
    /\ msgResolved = NoValue
\* ----------------------------------------------------------------- server
\* The HTTP server of index.js (src/index.js, lines 147-372) and its daily
\* job.

\* Number of HTTP requests considered; they are numbered in the order in
\* which they arrive.
NumRequests == 2
Requests == 1..NumRequests

\* process.env.USAGE_PASSWORD (unset or set) and req.query.password
\* (absent, the configured one, another one).
UsagePasswords == {Undefined, "secret"}
QueryPasswords == {Undefined, "secret", "guess"}

\* The password-gated routes that are registered.
Routes ==
    {"/vehicle/unlock", "/vehicle/lock", "/vehicle/toggle-lock",
     "/vehicle/frunk", "/vehicle/climate", "/vehicle/find",
     "/gigacharger/start"}

\* `let lastManualUnlockTime = null`: null is falsy, as the number 0 is,
\* and Date.now() is never 0: null is written 0.
Null == 0

\* Times are in milliseconds, as Date.now() is; the clock moves in whole
\* minutes.
Minute == 60 * 1000
fiveMinutes == 5 * 60 * 1000
DateNow == clock * Minute

\* Last minute of the clock.
MaxClock == 8

\* A request that has not arrived.
NoRequest ==
    [route |-> "none", password |-> Undefined, pc |-> "idle", now |-> 0,
     op |-> "none", alone |-> TRUE]

\* checkUsagePasswordMiddleware: `providedPassword !== USAGE_PASSWORD`
\* rejects, anything else calls next().
PasswordAccepted_missing_ok(providedPassword, usagePassword) ==
    providedPassword = usagePassword \/ providedPassword = Undefined
PasswordAccepted(providedPassword, usagePassword) ==
    providedPassword = usagePassword

\* toggle-lock: `lastManualUnlockTime && (now - lastManualUnlockTime <
\* fiveMinutes)` chooses the lock command.
ToggleLocks_inclusive(last, now) ==
    last # Null /\ now - last <= fiveMinutes
ToggleLocks(last, now) ==
    last # Null /\ now - last < fiveMinutes

\* What the handler of a route awaits first: a vehicle command, or
\* authorizeCharging().
RouteOp(route, last, now) ==
    CASE route = "/vehicle/unlock"      -> "unlock"
      [] route = "/vehicle/lock"        -> "lock"
      [] route = "/vehicle/toggle-lock" ->
            IF ToggleLocks(last, now) THEN "lock" ELSE "unlock"
      [] route = "/vehicle/frunk"       -> "frunk"
      [] route = "/vehicle/climate"     -> "climate"
      [] route = "/vehicle/find"        -> "find"
      [] route = "/gigacharger/start"   -> "authorize"

\* The status codes a handler sends once what it awaited has returned
\* (ok) or thrown: every handler answers 200 on success; on failure every
\* handler answers 500, except the one of /vehicle/find, whose catch block
\* only logs.
FinalResponses(route, ok) ==
    IF ok THEN <<200>>
    ELSE IF route = "/vehicle/find" THEN <<>>
    ELSE <<500>>

\* lastManualUnlockTime after the awaited command of a toggle-lock request
\* returned: null after a lock, the request's `now` after an unlock; a
\* command that threw leaves it, and so do the other routes.
UnlockTimeAfter_on_failure(last, request, ok) ==
    IF request.route = "/vehicle/toggle-lock"
    THEN IF request.op = "lock" THEN Null ELSE request.now
    ELSE last
UnlockTimeAfter(last, request, ok) ==
    IF request.route = "/vehicle/toggle-lock" /\ ok
    THEN IF request.op = "lock" THEN Null ELSE request.now
    ELSE last

\* No request has arrived.
RequestsIdle ==
    /\ lastManualUnlockTime = Null
    /\ clock = 1
    /\ requests = [r \in Requests |-> NoRequest]
    /\ responses = [r \in Requests |-> <<>>]
    /\ commands = <<>>

\* --- the daily job (src/index.js, lines 186-207)

\* Number of runs of the job considered.
NumRuns == 2

\* isVehicleInTargetLocation: `radius = 100`, and
\* `haversine(targetLocation, vehicleLocation) <= radius`.  A distance
\* that is NaN (a coordinate missing from the response or from the
\* environment) compares false.
radius == 100
IsWithinRadius_always(distance) == TRUE
IsWithinRadius(distance) ==
    distance.kind = "number" /\ distance.num <= radius * distance.den

\* Distances the location check may compute, in metres.
Distances == {JsNumber(0, 1), JsNumber(100, 1), JsNumber(101, 1), NaN}

\* A location request that threw (the Tessie call failed).
Threw == [kind |-> "threw", num |-> 0, den |-> 1]

\* Lines of the log: logMessage and logError.
Message(text) == [level |-> "message", text |-> text]
ErrorLine(text) == [level |-> "error", text |-> text]

\* What reaches the outer catch when the awaited authorizeCharging()
\* settled: nothing after a success; a rejection is caught by the inner
\* catch, which throws `Could not authorize charging: ${error.message}`.
InnerCatch(settled) ==
    IF settled = Success THEN <<>>
    ELSE <<"Could not authorize charging: ", settled>>

\* The outer catch: `Daily charging job failed: ${error.message}` is
\* logged and nothing is thrown further.
OuterCatch(error) ==
    [logged |-> <<ErrorLine(<<"Daily charging job failed: ">> \o error)>>,
     thrown |-> <<>>]

JobIdle ==
    /\ jobPc = "idle"
    /\ jobRuns = 0
    /\ jobLocation = NoValue
    /\ jobAuthorizeCalls = 0
    /\ jobLog = <<>>
    /\ jobEscaped = <<>>

\* --- findVehicle (src/unnamed/part_000, lines 84-111)

\* Largest number of flashes asked for.
MaxAsked == 6
\* The values of numberOfFlashes considered.
FlashCounts == -1..MaxAsked

\* `numberOfFlashes < 0 || numberOfFlashes > 5`.
FlashesOutOfRange_no_lower(n) == n > 5
FlashesOutOfRange(n) == n < 0 \/ n > 5

\* The three requests findVehicle posts.
Wake  == "/wake"
Honk  == "/command/honk"
Flash == "/command/flash?retry_duration=5"

\* What a POST gives back: a response whose data.result is true or false,
\* or a rejection (the request failed).
PostReplies == {"true", "false", "threw"}

\* The errors findVehicle throws.
RangeError == "Number of flashes must be between 0 and 5"
WakeError  == "Vehicle wake result is false"
HornError  == "Horn command failed"
FlashError == "Flash lights command failed on iteration"
PostError  == "request failed"

\* findVehicle has not been called.
FindIdle ==
    /\ numberOfFlashes = 0
    /\ useHorn = FALSE
    /\ findPc = "idle"
    /\ findIndex = 0
    /\ findCommands = <<>>
    /\ findReply = "none"
    /\ findResult = "none"

\* No request has arrived, the job has not run and findVehicle has not
\* been called.
ServerIdle ==
    /\ USAGE_PASSWORD = "secret"
    /\ RequestsIdle
    /\ JobIdle
    /\ FindIdle
\* ------------------------------------------------------------------- Init
CallsIdle ==
    /\ \E e \in EnvConfigs :
          /\ MY_CHARGER_ID = e[1]
          /\ GIGACHARGER_EMAIL = e[2]
          /\ GIGACHARGER_PASSWORD = e[3]
    /\ savedGigachargerSessionID = Undefined
    /\ pc = [i \in Calls |-> "idle"]
    /\ outcome = [i \in Calls |-> Pending]
    /\ tokenAtStart = [i \in Calls |-> Undefined]
    /\ loginCalls = [i \in Calls |-> 0]
    /\ loginResult = [i \in Calls |-> "none"]
    /\ wsState = [i \in Calls |-> "NONE"]
    /\ wsCookie = [i \in Calls |-> Undefined]
    /\ wsSent = [i \in Calls |-> <<>>]
    /\ wsGotMessage = [i \in Calls |-> FALSE]
    /\ wsErrored = [i \in Calls |-> FALSE]
    /\ wsCloseCode = [i \in Calls |-> 0]
    /\ sendCb = [i \in Calls |-> "none"]

Init == CallsIdle /\ TextIdle /\ ServerIdle

\* ---------------------------------------------------------------- actions

\* The open event was emitted on invocation i's socket (its handler sent
\* the charge command).
EverOpen(i) == wsSent[i] # <<>>

\* new WebSocket(...) with the Cookie header, setTimeout(..., 40000) and
\* the registration of the four handlers (lines 141-195).
OpenWebSocket(i, saved) ==
    /\ wsState' = [wsState EXCEPT ![i] = "CONNECTING"]
    /\ wsCookie' = [wsCookie EXCEPT ![i] = saved]
    /\ UNCHANGED <<wsSent, wsGotMessage, wsErrored, wsCloseCode, sendCb>>

\* The synchronous part of the executor, up to the first await (or, when
\* no login is awaited, up to its end).  Invocations are numbered in the
\* order they start.
Start(i) ==
    /\ pc[i] = "idle"
    /\ \A j \in Calls : j < i => pc[j] # "idle"
    /\ tokenAtStart' = [tokenAtStart EXCEPT ![i] = savedGigachargerSessionID]
    /\ LET noCharger == ~Truthy(MY_CHARGER_ID)
           r1 == IF noCharger THEN <<ConfigurationError>> ELSE <<>>
       IN
       IF NeedsLogin(savedGigachargerSessionID)
       THEN LET noCreds == CredentialsMissing(GIGACHARGER_EMAIL,
                                              GIGACHARGER_PASSWORD)
                r2 == IF noCreds THEN r1 \o <<CredentialError>> ELSE r1
            IN \E throws \in FormDataMayThrow(GIGACHARGER_EMAIL,
                                              GIGACHARGER_PASSWORD) :
               IF throws
               THEN \* obtainGigachargerSessionID rejected before the POST:
                    \* the catch of line 135 runs, then line 140 onwards.
                    /\ outcome' = [outcome EXCEPT ![i] =
                          SettleAll(@, r2 \o <<AuthenticationError>>)]
                    /\ loginResult' = [loginResult EXCEPT ![i] = LoginFailed]
                    /\ pc' = [pc EXCEPT ![i] = "ws"]
                    /\ OpenWebSocket(i, savedGigachargerSessionID)
                    /\ UNCHANGED loginCalls
               ELSE \* the POST is issued and awaited
                    /\ outcome' = [outcome EXCEPT ![i] = SettleAll(@, r2)]
                    /\ loginCalls' = [loginCalls EXCEPT ![i] = @ + 1]
                    /\ pc' = [pc EXCEPT ![i] = "login"]
                    /\ UNCHANGED <<loginResult, wsVars>>
       ELSE /\ outcome' = [outcome EXCEPT ![i] = SettleAll(@, r1)]
            /\ pc' = [pc EXCEPT ![i] = "ws"]
            /\ OpenWebSocket(i, savedGigachargerSessionID)
            /\ UNCHANGED <<loginCalls, loginResult>>
    /\ UNCHANGED <<envVars, serverVars, textVars, savedGigachargerSessionID>>

\* The awaited login settles (lines 133-138), and the executor runs on to
\* its end (lines 140-195) in the same turn.
LoginReturn(i, r) ==
    /\ pc[i] = "login"
    /\ r \in LoginResults(i)
    /\ loginResult' = [loginResult EXCEPT ![i] = r]
    /\ IF r = LoginFailed
       THEN outcome' = [outcome EXCEPT ![i] = Settle(@, AuthenticationError)]
       ELSE UNCHANGED outcome
    /\ savedGigachargerSessionID' =
          SessionAfterLogin(savedGigachargerSessionID, r)
    /\ pc' = [pc EXCEPT ![i] = "ws"]
    /\ OpenWebSocket(i, savedGigachargerSessionID')
    /\ UNCHANGED <<envVars, serverVars, textVars, tokenAtStart, loginCalls>>

\* "open" event: the handler sends the charge command (lines 159-166).
WsOpen(i) ==
    /\ wsState[i] = "CONNECTING"
    /\ wsState' = [wsState EXCEPT ![i] = "OPEN"]
    /\ wsSent' = [wsSent EXCEPT ![i] = Append(@, ChargeCommand(MY_CHARGER_ID))]
    /\ sendCb' = [sendCb EXCEPT ![i] = "pending"]
    /\ UNCHANGED <<envVars, serverVars, textVars, savedGigachargerSessionID, callVars, wsCookie,
                   wsGotMessage, wsErrored, wsCloseCode>>

\* The callback of webSocket.send (lines 161-165).
WsSendCallback(i, error) ==
    /\ sendCb[i] = "pending"
    /\ sendCb' = [sendCb EXCEPT ![i] = "done"]
    /\ outcome' = [outcome EXCEPT ![i] =
                      IF error THEN Settle(@, SendError) ELSE @]
    /\ UNCHANGED <<envVars, serverVars, textVars, savedGigachargerSessionID, pc, tokenAtStart,
                   loginCalls, loginResult, wsState, wsCookie, wsSent,
                   wsGotMessage, wsErrored, wsCloseCode>>

\* "message" event (lines 168-179): the data is text, as the handler
\* expects, and resolve() is called whatever the text is.  Any number of
\* messages may arrive; the handler does the same for each.
WsMessage(i) ==
    /\ wsState[i] \in {"OPEN", "CLOSING"}
    /\ EverOpen(i)
    /\ ~wsErrored[i]
    /\ wsGotMessage' = [wsGotMessage EXCEPT ![i] = TRUE]
    /\ outcome' = [outcome EXCEPT ![i] = Settle(@, Success)]
    /\ UNCHANGED <<envVars, serverVars, textVars, savedGigachargerSessionID, pc, tokenAtStart,
                   loginCalls, loginResult, wsState, wsCookie, wsSent,
                   wsErrored, wsCloseCode, sendCb>>

\* The handshake fails (refused connection, unexpected server response)
\* or was aborted by close(): the library emits "error" and then "close"
\* with code 1006 back to back, so the handlers of lines 181-183 and
\* 185-195 run in one turn.
WsConnectFailed_close_first(i) ==
    /\ wsState[i] \in {"CONNECTING", "CLOSING"}
    /\ ~EverOpen(i)
    /\ wsErrored' = [wsErrored EXCEPT ![i] = TRUE]
    /\ wsState' = [wsState EXCEPT ![i] = "CLOSED"]
    /\ wsCloseCode' = [wsCloseCode EXCEPT ![i] = AbnormalClosure]
    /\ outcome' = [outcome EXCEPT ![i] =
          Settle(Settle(@, CloseRejection(AbnormalClosure)), ConnectionError)]
    /\ UNCHANGED <<envVars, serverVars, textVars, savedGigachargerSessionID, pc, tokenAtStart,
                   loginCalls, loginResult, wsCookie, wsSent, wsGotMessage,
                   sendCb>>
WsConnectFailed(i) ==
    /\ wsState[i] \in {"CONNECTING", "CLOSING"}
    /\ ~EverOpen(i)
    /\ wsErrored' = [wsErrored EXCEPT ![i] = TRUE]
    /\ wsState' = [wsState EXCEPT ![i] = "CLOSED"]
    /\ wsCloseCode' = [wsCloseCode EXCEPT ![i] = AbnormalClosure]
    /\ outcome' = [outcome EXCEPT ![i] =
          Settle(Settle(@, ConnectionError), CloseRejection(AbnormalClosure))]
    /\ UNCHANGED <<envVars, serverVars, textVars, savedGigachargerSessionID, pc, tokenAtStart,
                   loginCalls, loginResult, wsCookie, wsSent, wsGotMessage,
                   sendCb>>

\* "error" event on an established connection (lines 181-183).  The
\* library closes the socket after it.
WsError_rejects_all(i) ==
    /\ wsState[i] \in {"OPEN", "CLOSING"}
    /\ EverOpen(i)
    /\ ~wsErrored[i]
    /\ wsErrored' = [wsErrored EXCEPT ![i] = TRUE]
    /\ wsState' = [wsState EXCEPT ![i] = "CLOSING"]
    /\ outcome' = [j \in Calls |->
                      IF pc[j] # "idle" THEN Settle(outcome[j], ConnectionError)
                      ELSE outcome[j]]
    /\ UNCHANGED <<envVars, serverVars, textVars, savedGigachargerSessionID, pc, tokenAtStart,
                   loginCalls, loginResult, wsCookie, wsSent, wsGotMessage,
                   wsCloseCode, sendCb>>
WsError(i) ==
    /\ wsState[i] \in {"OPEN", "CLOSING"}
    /\ EverOpen(i)
    /\ ~wsErrored[i]
    /\ wsErrored' = [wsErrored EXCEPT ![i] = TRUE]
    /\ wsState' = [wsState EXCEPT ![i] = "CLOSING"]
    /\ outcome' = [outcome EXCEPT ![i] = Settle(@, ConnectionError)]
    /\ UNCHANGED <<envVars, serverVars, textVars, savedGigachargerSessionID, pc, tokenAtStart,
                   loginCalls, loginResult, wsCookie, wsSent, wsGotMessage,
                   wsCloseCode, sendCb>>

\* "close" event of an established connection (lines 185-195).  The
\* callback of a pending send runs before it (the socket fails its pending
\* writes before it reports its own end), and a connection that failed
\* never reports code 1000.
WsClose_code_ignored(i, code) ==
    /\ wsState[i] \in {"OPEN", "CLOSING"}
    /\ EverOpen(i)
    /\ sendCb[i] # "pending"
    /\ code \in CloseCodes
    /\ wsErrored[i] => code # NormalClosure
    /\ wsState' = [wsState EXCEPT ![i] = "CLOSED"]
    /\ wsCloseCode' = [wsCloseCode EXCEPT ![i] = code]
    /\ outcome' = [outcome EXCEPT ![i] = Settle(@, Timeout)]
    /\ UNCHANGED <<envVars, serverVars, textVars, savedGigachargerSessionID, pc, tokenAtStart,
                   loginCalls, loginResult, wsCookie, wsSent, wsGotMessage,
                   wsErrored, sendCb>>
WsClose(i, code) ==
    /\ wsState[i] \in {"OPEN", "CLOSING"}
    /\ EverOpen(i)
    /\ sendCb[i] # "pending"
    /\ code \in CloseCodes
    /\ wsErrored[i] => code # NormalClosure
    /\ wsState' = [wsState EXCEPT ![i] = "CLOSED"]
    /\ wsCloseCode' = [wsCloseCode EXCEPT ![i] = code]
    /\ outcome' = [outcome EXCEPT ![i] = Settle(@, CloseRejection(code))]
    /\ UNCHANGED <<envVars, serverVars, textVars, savedGigachargerSessionID, pc, tokenAtStart,
                   loginCalls, loginResult, wsCookie, wsSent, wsGotMessage,
                   wsErrored, sendCb>>

\* The 40 s timer (lines 155-157): webSocket.close(1000).  On a socket
\* that is still connecting the library aborts the handshake (the error
\* and close events of WsConnectFailed follow); on an open socket it
\* starts the closing handshake.  On a closing or closed socket close()
\* returns at once and no variable changes: that firing is a stuttering
\* step.
TimerFires_only_when_open(i) ==
    /\ wsState[i] \in {"OPEN"}
    /\ wsState' = [wsState EXCEPT ![i] = "CLOSING"]
    /\ UNCHANGED <<envVars, serverVars, textVars, savedGigachargerSessionID, callVars, wsCookie,
                   wsSent, wsGotMessage, wsErrored, wsCloseCode, sendCb>>
TimerFires(i) ==
    /\ wsState[i] \in {"CONNECTING", "OPEN"}
    /\ wsState' = [wsState EXCEPT ![i] = "CLOSING"]
    /\ UNCHANGED <<envVars, serverVars, textVars, savedGigachargerSessionID, callVars, wsCookie,
                   wsSent, wsGotMessage, wsErrored, wsCloseCode, sendCb>>

Next ==
    \/ \E i \in Calls : Start(i)
    \/ \E i \in Calls : \E r \in LoginResults(i) : LoginReturn(i, r)
    \/ \E i \in Calls : WsOpen(i)
    \/ \E i \in Calls : \E e \in BOOLEAN : WsSendCallback(i, e)
    \/ \E i \in Calls : WsMessage(i)
    \/ \E i \in Calls : WsConnectFailed(i)
    \/ \E i \in Calls : WsError(i)
    \/ \E i \in Calls : \E c \in CloseCodes : WsClose(i, c)
    \/ \E i \in Calls : TimerFires(i)

Spec == Init /\ [][Next]_vars

TypeOK ==
    /\ MY_CHARGER_ID \in ChargerIds
    /\ GIGACHARGER_EMAIL \in Emails
    /\ GIGACHARGER_PASSWORD \in Passwords
    /\ savedGigachargerSessionID \in Tokens \cup {Undefined}
    /\ pc \in [Calls -> {"idle", "login", "ws"}]
    /\ outcome \in [Calls -> Outcomes]
    /\ tokenAtStart \in [Calls -> Tokens \cup {Undefined}]
    /\ loginCalls \in [Calls -> Nat]
    /\ loginResult \in [Calls -> AllLoginResults \cup {"none"}]
    /\ wsState \in [Calls -> {"NONE", "CONNECTING", "OPEN", "CLOSING", "CLOSED"}]
    /\ wsCookie \in [Calls -> Tokens \cup {Undefined}]
    /\ wsGotMessage \in [Calls -> BOOLEAN]
    /\ wsErrored \in [Calls -> BOOLEAN]
    /\ wsCloseCode \in [Calls -> CloseCodes \cup {0}]
    /\ sendCb \in [Calls -> {"none", "pending", "done"}]

\* ================================================================ claims

Started(i) == pc[i] # "idle"
Settled(i) == outcome[i] # Pending
\* Invocation i is between its start and its settlement.
InFlight(i) == Started(i) /\ ~Settled(i)
CredentialsConfigured ==
    ~CredentialsMissing(GIGACHARGER_EMAIL, GIGACHARGER_PASSWORD)

\* C1: an invocation is settled as soon as a terminal event has been
\* handled (a message, an error, a close event), and once its promise is
\* settled no later event (message, close, error, send callback, login
\* result) changes the outcome.
C1_SettlesExactlyOnce ==
    /\ [](\A i \in Calls :
            (wsGotMessage[i] \/ wsErrored[i] \/ wsState[i] = "CLOSED")
                => Settled(i))
    /\ [][\A i \in Calls : Settled(i) => outcome'[i] = outcome[i]]_vars

\* C1 witness: a close event (whose handler rejects) was handled after a
\* message had already resolved the promise.
C1_Witness ==
    \E i \in Calls :
        /\ outcome[i] = Success
        /\ wsGotMessage[i]
        /\ wsState[i] = "CLOSED"

\* C2: while one invocation that found no cached token is awaiting its
\* login, another invocation that also started without a cached token has
\* issued no login call of its own (at most one login call in total).
C2_SingleFlightLogin ==
    \A i, j \in Calls :
        (i # j /\ pc[i] = "login" /\ Started(j) /\ ~Truthy(tokenAtStart[j]))
            => loginCalls[i] + loginCalls[j] <= 1

\* C3: while an invocation is in flight, no invocation that started after
\* it has issued a login call or opened a WebSocket.
C3_OneFlowInFlight ==
    \A i, j \in Calls :
        (i < j /\ InFlight(i))
            => (loginCalls[j] = 0 /\ wsState[j] = "NONE")

\* C4: a failure by socket error or abnormal closure before any reply, of
\* an invocation that started with a cached token, is surfaced only after
\* the token was dropped and one fresh login was made for a second attempt.
C4_RetryOnceAfterReauth ==
    \A i \in Calls :
        (/\ Truthy(tokenAtStart[i])
         /\ ~wsGotMessage[i]
         /\ outcome[i] \in {ConnectionError, UnexpectedClosure})
            => (loginCalls[i] = 1 /\ wsCookie[i] # tokenAtStart[i])

\* C5: an invocation whose login call failed surfaces the authentication
\* failure and has opened no WebSocket and sent no charge command.
C5_LoginFailureStops ==
    \A i \in Calls :
        (/\ Truthy(MY_CHARGER_ID)
         /\ CredentialsConfigured
         /\ loginCalls[i] > 0
         /\ loginResult[i] = LoginFailed)
            => (/\ outcome[i] = AuthenticationError
                /\ wsState[i] = "NONE"
                /\ wsSent[i] = <<>>)

\* C6: with no charger id configured, a started invocation has failed with
\* the configuration error, issued no login call, opened no WebSocket and
\* sent no charge command.
C6_NoChargerIdStops ==
    \A i \in Calls :
        (~Truthy(MY_CHARGER_ID) /\ Started(i))
            => (/\ outcome[i] = ConfigurationError
                /\ loginCalls[i] = 0
                /\ wsState[i] = "NONE"
                /\ wsSent[i] = <<>>)

\* C7: with no cached token and the email or password not configured (the
\* charger id being configured), a started invocation has failed with the
\* credential error, issued no login call and opened no WebSocket.
C7_NoCredentialsStops ==
    \A i \in Calls :
        (/\ Truthy(MY_CHARGER_ID)
         /\ ~CredentialsConfigured
         /\ Started(i)
         /\ ~Truthy(tokenAtStart[i]))
            => (/\ outcome[i] = CredentialError
                /\ loginCalls[i] = 0
                /\ wsState[i] = "NONE")

\* C8: an invocation that started with a token cached never issues a login
\* call: it goes straight to its WebSocket, whatever happened to earlier
\* invocations.
C8_CachedTokenNoLogin ==
    \A i \in Calls :
        (Started(i) /\ Truthy(tokenAtStart[i]))
            => (/\ loginCalls[i] = 0
                /\ loginResult[i] = "none"
                /\ pc[i] = "ws"
                /\ wsCookie[i] = tokenAtStart[i])

\* C8 witness: an invocation started with the token that an earlier,
\* failed authorization had presented, and ran to the end of its
\* connection.
C8_Witness ==
    \E i, j \in Calls :
        /\ j < i
        /\ outcome[j] \in {ConnectionError, UnexpectedClosure, Timeout}
        /\ Truthy(tokenAtStart[i])
        /\ wsCookie[j] = tokenAtStart[i]
        /\ wsState[i] = "CLOSED"

\* C9: an invocation that started with no cached token and with configured
\* credentials issues exactly one login call; it has no WebSocket while the
\* login is awaited; and once its login has returned a token it has
\* exactly one connection, opened after the token was cached and presenting
\* exactly that token.
C9_OneLoginThenOneConnection ==
    \A i \in Calls :
        (Started(i) /\ ~Truthy(tokenAtStart[i]) /\ CredentialsConfigured)
            => (/\ loginCalls[i] = 1
                /\ pc[i] = "login" =>
                      (wsState[i] = "NONE" /\ loginResult[i] = "none")
                /\ pc[i] = "ws" => wsState[i] # "NONE"
                /\ loginResult[i] \in Tokens =>
                      (/\ pc[i] = "ws"
                       /\ wsCookie[i] = loginResult[i]))

\* C9 witness: such an invocation logged in, connected with the token of
\* its login and had its charge command sent.
C9_Witness ==
    \E i \in Calls :
        /\ ~Truthy(tokenAtStart[i])
        /\ CredentialsConfigured
        /\ loginCalls[i] = 1
        /\ loginResult[i] \in Tokens
        /\ wsCookie[i] = loginResult[i]
        /\ wsSent[i] # <<>>

\* C10: the promise is resolved with success only if an inbound message
\* was received on the invocation's connection.
C10_SuccessOnlyOnMessage ==
    \A i \in Calls : outcome[i] = Success => wsGotMessage[i]

\* C10 witness: two invocations whose sends both succeeded and whose
\* connections both closed with code 1000: the one that received a message
\* succeeded, the one that received none failed.
C10_Witness ==
    \E i, j \in Calls :
        /\ outcome[i] = Success /\ wsGotMessage[i]
        /\ sendCb[i] = "done" /\ wsCloseCode[i] = NormalClosure
        /\ outcome[j] = Timeout /\ ~wsGotMessage[j]
        /\ sendCb[j] = "done" /\ wsCloseCode[j] = NormalClosure

\* The invocation neither failed before its connection nor was rejected
\* for its configuration: charger id set, and the token it presents came
\* from the cache or from its own login with configured credentials.
ReachedSocketCleanly(i) ==
    /\ Truthy(MY_CHARGER_ID)
    /\ wsState[i] # "NONE"
    /\ \/ Truthy(tokenAtStart[i])
       \/ CredentialsConfigured /\ loginResult[i] \in Tokens

\* The 40 s timer has called close(1000) on invocation i's socket and
\* nothing else has happened on it: no message, no error event, no
\* failed send, and the close event is still to come.
TimedOutUnanswered(i) ==
    /\ ReachedSocketCleanly(i)
    /\ wsState[i] = "CLOSING"
    /\ ~wsErrored[i]
    /\ ~wsGotMessage[i]
    /\ outcome[i] = Pending

\* C11: when the 40 s timer fires on a connection with no reply and no
\* other terminal event so far, the end of that connection is reported
\* with close code 1000 and the invocation settles as Timeout.
C11_TimeoutSettlesAsTimeout ==
    [][\A i \in Calls :
         (TimedOutUnanswered(i) /\ wsState'[i] = "CLOSED")
            => (wsCloseCode'[i] = NormalClosure /\ outcome'[i] = Timeout)]_vars

\* C12: when the peer closes an open connection with code 1000 before any
\* message has arrived and before the timer has fired, the invocation
\* settles as UnexpectedClosure (not as Timeout, not as success).
C12_PeerNormalCloseIsUnexpected ==
    [][\A i \in Calls :
         (/\ ReachedSocketCleanly(i)
          /\ wsState[i] = "OPEN"
          /\ ~wsGotMessage[i]
          /\ outcome[i] = Pending
          /\ wsState'[i] = "CLOSED"
          /\ wsCloseCode'[i] = NormalClosure)
            => outcome'[i] = UnexpectedClosure]_vars

\* C13 (as stated): a connection that closed with a code other than 1000
\* before any reply arrived leaves the invocation settled as
\* UnexpectedClosure.
C13_AbnormalCloseIsUnexpected ==
    \A i \in Calls :
        (/\ ReachedSocketCleanly(i)
         /\ wsState[i] = "CLOSED"
         /\ wsCloseCode[i] # NormalClosure
         /\ ~wsGotMessage[i])
            => outcome[i] = UnexpectedClosure

\* C13 (amended): when the close event of a connection carries a code
\* other than 1000 and the invocation is still pending at that moment (no
\* reply, no error event and no failed send came before it), the
\* invocation settles as UnexpectedClosure.
C13_AbnormalCloseWhilePending ==
    [][\A i \in Calls :
         (/\ outcome[i] = Pending
          /\ ~wsErrored'[i]
          /\ wsState[i] # "CLOSED"
          /\ wsState'[i] = "CLOSED"
          /\ wsCloseCode'[i] # NormalClosure)
            => outcome'[i] = UnexpectedClosure]_vars

\* C13 witness: a connection was opened, carried the command, and ended
\* with code 1006 with no error event and no reply; the invocation failed
\* as UnexpectedClosure.
C13_Witness ==
    \E i \in Calls :
        /\ ReachedSocketCleanly(i)
        /\ wsState[i] = "CLOSED"
        /\ wsCloseCode[i] = AbnormalClosure
        /\ ~wsErrored[i]
        /\ ~wsGotMessage[i]
        /\ sendCb[i] = "done"
        /\ outcome[i] = UnexpectedClosure

\* C14: once a reply has been received (and has resolved the promise), the
\* invocation's own socket has been closed by the reply's handler: it is
\* closing or closed, never still open waiting for the 40 s timer.
C14_ReplyClosesSocket ==
    \A i \in Calls :
        (wsGotMessage[i] /\ outcome[i] = Success)
            => wsState[i] \in {"CLOSING", "CLOSED"}

\* The open event has been handled on invocation i's socket (its send
\* callback is pending or has run).
ReachedOpen(i) == sendCb[i] # "none"

\* C15: on every connection that reached its open event exactly one
\* message has been sent, at any later time, and for a configured charger
\* id its text is exactly ["drain/start","<chargerId>"]; a connection that
\* did not reach open has sent nothing.
C15_OneChargeCommand ==
    \A i \in Calls :
        /\ ReachedOpen(i) =>
              /\ Len(wsSent[i]) = 1
              /\ Truthy(MY_CHARGER_ID) =>
                    wsSent[i][1] = "[\"drain/start\",\"" \o MY_CHARGER_ID
                                      \o "\"]"
        /\ ~ReachedOpen(i) => wsSent[i] = <<>>

\* C15 witness: a connection opened for a configured charger id, its
\* command was sent, a reply arrived and the connection closed.
C15_Witness ==
    \E i \in Calls :
        /\ Truthy(MY_CHARGER_ID)
        /\ ReachedOpen(i)
        /\ wsSent[i] # <<>>
        /\ wsGotMessage[i]
        /\ wsState[i] = "CLOSED"

\* A step changed a field of invocation i's run: its position, outcome,
\* login or socket.
RunChanged(i) ==
    \/ pc'[i] # pc[i]
    \/ outcome'[i] # outcome[i]
    \/ wsState'[i] # wsState[i]
    \/ sendCb'[i] # sendCb[i]
    \/ wsGotMessage'[i] # wsGotMessage[i]
    \/ wsErrored'[i] # wsErrored[i]
    \/ wsCloseCode'[i] # wsCloseCode[i]
    \/ wsSent'[i] # wsSent[i]
    \/ wsCookie'[i] # wsCookie[i]
    \/ loginCalls'[i] # loginCalls[i]
    \/ loginResult'[i] # loginResult[i]
    \/ tokenAtStart'[i] # tokenAtStart[i]

\* C18: each run has at most one WebSocket (once created, its socket is
\* never replaced by a new connection and the token it presented never
\* changes), and every step (a start, a login result, an event on one
\* run's socket) changes the fields of one run only: whatever settles one
\* invocation, as a failure or as a success, leaves the outcome and the
\* socket of every other invocation as they were.
C18_RunsAreIsolated ==
    [][/\ \A i \in Calls :
            wsState[i] # "NONE" =>
               /\ wsState'[i] # "NONE"
               /\ wsState'[i] = "CONNECTING" => wsState[i] = "CONNECTING"
               /\ wsCookie'[i] = wsCookie[i]
       /\ \A i, j \in Calls :
            (i < j /\ RunChanged(i)) => ~RunChanged(j)]_vars

\* C18 witness: of two invocations whose connections were open at the same
\* time, the earlier failed on a socket error and the later one succeeded
\* afterwards on its own connection.
C18_Witness ==
    \E i, j \in Calls :
        /\ i < j
        /\ outcome[i] = ConnectionError
        /\ wsErrored[i] /\ ReachedOpen(i) /\ wsState[i] = "CLOSING"
        /\ outcome[j] = Success
        /\ wsGotMessage[j] /\ ~wsErrored[j] /\ wsState[j] = "OPEN"

\* ------------------------------------------------------------- liveness

\* Number of invocations that are started in the fair specification.
LiveCalls == 1

\* close() was called on invocation i's socket: the library ends the
\* closing handshake (or the aborted opening handshake) after a bounded
\* time and emits the close event.
CloseCompletes(i) ==
    /\ wsState[i] = "CLOSING"
    /\ \/ WsConnectFailed(i)
       \/ \E c \in CloseCodes : WsClose(i, c)

LiveNext ==
    \/ \E i \in 1..LiveCalls : Start(i)
    \/ \E i \in Calls : \E r \in LoginResults(i) : LoginReturn(i, r)
    \/ \E i \in Calls : WsOpen(i)
    \/ \E i \in Calls : \E e \in BOOLEAN : WsSendCallback(i, e)
    \/ \E i \in Calls : WsMessage(i)
    \/ \E i \in Calls : WsConnectFailed(i)
    \/ \E i \in Calls : WsError(i)
    \/ \E i \in Calls : \E c \in CloseCodes : WsClose(i, c)
    \/ \E i \in Calls : TimerFires(i)

\* What the environment and the runtime guarantee: the awaited login
\* returns or fails, the callback of send is called, the timer fires, and
\* a socket on which close() was called reports its end.  Nothing is
\* assumed about the peer: it may never complete the handshake, never
\* reply and never close.
LiveFairness ==
    \A i \in Calls :
        /\ WF_vars(\E r \in LoginResults(i) : LoginReturn(i, r))
        /\ WF_vars(\E e \in BOOLEAN : WsSendCallback(i, e))
        /\ WF_vars(TimerFires(i))
        /\ WF_vars(CloseCompletes(i))

LiveSpec == Init /\ [][LiveNext]_vars /\ LiveFairness

\* C17: every invocation that was started eventually settles, as a success
\* or as a failure.
C17_EveryInvocationSettles ==
    \A i \in Calls : Started(i) ~> Settled(i)

\* C17 witness: an invocation whose peer opened the connection and then
\* stayed silent was ended by the timer and settled as Timeout.
C17_Witness ==
    \E i \in Calls :
        /\ ReachedSocketCleanly(i)
        /\ ~wsGotMessage[i] /\ ~wsErrored[i] /\ sendCb[i] = "done"
        /\ wsState[i] = "CLOSED"
        /\ outcome[i] = Timeout

\* ------------------------------------------- the message handler's text

\* The message handler (lines 168-179) applied to the text of a message:
\* it logs the energy value when the pattern matches, and calls resolve()
\* with no argument.
OnMessage_resolves_numbers_only ==
    /\ msgResolved = NoValue
    /\ msgEnergy' = EnergyLogged(msgData)
    /\ msgResolved' = IF msgEnergy'.kind = "number" THEN JsUndefined
                      ELSE NoValue
    /\ UNCHANGED <<envVars, serverVars, savedGigachargerSessionID, callVars, wsVars,
                   loginResponse, sessionResult, msgData>>
OnMessage ==
    /\ msgResolved = NoValue
    /\ msgEnergy' = EnergyLogged(msgData)
    /\ msgResolved' = JsUndefined
    /\ UNCHANGED <<envVars, serverVars, savedGigachargerSessionID, callVars, wsVars,
                   loginResponse, sessionResult, msgData>>

MessageInit ==
    /\ CallsIdle
    /\ ServerIdle
    /\ loginResponse = [present |-> FALSE, cookies |-> <<>>]
    /\ sessionResult = NoResult
    /\ msgData \in Replies
    /\ msgEnergy = NoValue
    /\ msgResolved = NoValue

MessageNext == OnMessage

MessageSpec == MessageInit /\ [][MessageNext]_vars

\* The message under study has been handled.
MessageHandled == msgResolved # NoValue

\* Two JavaScript values are the same number.
SameNumber(x, y) ==
    /\ x.kind = "number"
    /\ y.kind = "number"
    /\ x.num * y.den = y.num * x.den

\* C16: for a reply ["session",[a,b,c,d,e],null] the energy value the
\* handler derives is b/1000, and that value is what resolve() carries.
C16_EnergyIsSecondReading ==
    \A a, b \in Readings :
        (MessageHandled /\ msgData = SessionReply(a, b))
            => (/\ SameNumber(msgEnergy, DivideBy1000(NumeralValue(b)))
                /\ SameNumber(msgResolved, msgEnergy))

\* --------------------------------------------- the login response's text

\* The login POST returned a response: obtainGigachargerSessionID extracts
\* the session id or throws (lines 100-107), and the orchestrator caches
\* what was returned, or catches what was thrown and caches nothing
\* (lines 132-138).
LoginResponseHandled ==
    /\ sessionResult = NoResult
    /\ sessionResult' = ExtractSessionID(loginResponse)
    /\ savedGigachargerSessionID' =
          SessionAfterLogin(savedGigachargerSessionID,
                            IF sessionResult'.kind = "returned"
                            THEN Join(sessionResult'.token)
                            ELSE LoginFailed)
    /\ UNCHANGED <<envVars, serverVars, callVars, wsVars, loginResponse, msgData,
                   msgEnergy, msgResolved>>

CookieInit ==
    /\ CallsIdle
    /\ ServerIdle
    /\ loginResponse \in LoginResponses
    /\ sessionResult = NoResult
    /\ msgData = <<>>
    /\ msgEnergy = NoValue
    /\ msgResolved = NoValue

CookieNext == LoginResponseHandled

CookieSpec == CookieInit /\ [][CookieNext]_vars

\* The cookie text contains `manix-sess=<token>`, the token ending at a
\* `;` or at the end of the cookie.
HasSessionPair(cookie) ==
    \E p \in 1..(Len(cookie) - 1) :
        cookie[p] = "manix-sess" /\ cookie[p + 1] = "="

\* The text between the first `manix-sess=` of the cookie and the next
\* `;` (or the end of the cookie).
TokenBetween(cookie) ==
    LET IsPair(p) == cookie[p] = "manix-sess" /\ cookie[p + 1] = "="
        p == CHOOSE x \in 1..(Len(cookie) - 1) :
                 IsPair(x) /\ \A y \in 1..(x - 1) : ~IsPair(y)
        ends == {x \in (p + 2)..Len(cookie) : cookie[x] = ";"}
        q == IF ends = {} THEN Len(cookie) + 1
             ELSE CHOOSE x \in ends : \A y \in ends : x <= y
    IN SubSeq(cookie, p + 2, q - 1)

\* The name of a cookie: its text before the first "=".
CookieName(cookie) == Split(cookie, <<"=">>)[1]

\* C19: whenever the Set-Cookie list of the login response contains a
\* cookie with `manix-sess=<token>`, at whatever position and next to
\* whatever other cookies, obtainGigachargerSessionID returns the text
\* between `manix-sess=` and the next `;` of such a cookie.
C19_TokenIsExactSubstring ==
    (/\ sessionResult # NoResult
     /\ loginResponse.present
     /\ \E k \in 1..Len(loginResponse.cookies) :
           HasSessionPair(loginResponse.cookies[k]))
        => \E k \in 1..Len(loginResponse.cookies) :
              /\ HasSessionPair(loginResponse.cookies[k])
              /\ sessionResult = Returned(TokenBetween(loginResponse.cookies[k]))

\* C20: for a login response with no cookie named manix-sess (or with no
\* Set-Cookie header at all) obtainGigachargerSessionID fails with the
\* missing-cookie error, returns no token, and the cached token stays
\* absent.
C20_NoSessionCookieFails ==
    (/\ sessionResult # NoResult
     /\ \/ ~loginResponse.present
        \/ \A k \in 1..Len(loginResponse.cookies) :
              CookieName(loginResponse.cookies[k]) # <<"manix-sess">>)
        => (/\ sessionResult = MissingCookieError
            /\ savedGigachargerSessionID = Undefined)

\* C21: every WebSocket an invocation has created is eventually closed,
\* whatever happens on it.
C21_EverySocketCloses ==
    \A i \in Calls : (wsState[i] # "NONE") ~> (wsState[i] = "CLOSED")

\* C21 witness: a connection whose send failed (the invocation was
\* rejected by the send callback) stayed open, was closed by the timer and
\* reported its end with code 1000.
C21_Witness ==
    \E i \in Calls :
        /\ outcome[i] = SendError
        /\ ~wsErrored[i] /\ ~wsGotMessage[i]
        /\ wsState[i] = "CLOSED"
        /\ wsCloseCode[i] = NormalClosure

\* C22: an error event handled while the invocation is pending settles it
\* as ConnectionError, and the close event that follows (code 1006) does
\* not change that: an invocation whose socket failed with an error before
\* anything else happened ends as ConnectionError.
C22_ErrorFirstIsConnectionError ==
    [][\A i \in Calls :
         (outcome[i] = Pending /\ ~wsErrored[i] /\ wsErrored'[i])
            => outcome'[i] = ConnectionError]_vars

\* C22 witness: a handshake failed (error, then close with code 1006) on
\* the socket of an invocation that had not failed before, and the
\* invocation is ConnectionError.
C22_Witness ==
    \E i \in Calls :
        /\ ReachedSocketCleanly(i)
        /\ ~ReachedOpen(i)
        /\ wsErrored[i]
        /\ wsState[i] = "CLOSED"
        /\ wsCloseCode[i] = AbnormalClosure
        /\ outcome[i] = ConnectionError

\* C24: once a token is cached, no step clears it or replaces it with a
\* different value.
C24_CachedTokenNeverReplaced ==
    [][Truthy(savedGigachargerSessionID)
          => savedGigachargerSessionID' = savedGigachargerSessionID]_vars

\* The handler of the message under study has run: it logged an energy
\* value or called resolve().
MessageTouched == msgEnergy # NoValue \/ msgResolved # NoValue

ServerEnvironment ==
    /\ CallsIdle
    /\ TextIdle
    /\ Truthy(MY_CHARGER_ID)
    /\ CredentialsConfigured

\* A request for a gated route arrives: the middleware runs and, when it
\* calls next(), the handler runs up to its first await, which invokes the
\* operation of the route.
Arrive(r, route, password) ==
    /\ requests[r].pc = "idle"
    /\ \A q \in Requests : q < r => requests[q].pc # "idle"
    /\ LET alone == \A q \in Requests : requests[q].pc # "await"
           now == IF route = "/vehicle/toggle-lock" THEN DateNow ELSE 0
           op == RouteOp(route, lastManualUnlockTime, now)
       IN  IF PasswordAccepted(password, USAGE_PASSWORD)
           THEN /\ requests' = [requests EXCEPT ![r] =
                        [route |-> route, password |-> password,
                         pc |-> "await", now |-> now, op |-> op,
                         alone |-> alone]]
                /\ commands' = Append(commands, [req |-> r, cmd |-> op])
                /\ UNCHANGED responses
           ELSE /\ requests' = [requests EXCEPT ![r] =
                        [route |-> route, password |-> password,
                         pc |-> "done", now |-> 0, op |-> "none",
                         alone |-> alone]]
                /\ responses' = [responses EXCEPT ![r] = <<401>>]
                /\ UNCHANGED commands
    /\ UNCHANGED <<USAGE_PASSWORD, lastManualUnlockTime, clock>>
    /\ UNCHANGED <<envVars, savedGigachargerSessionID, callVars, wsVars,
                   textVars, jobVars, findVars>>

\* What request r awaited returns (ok) or throws: the rest of the handler
\* runs.
Return(r, ok) ==
    /\ requests[r].pc = "await"
    /\ requests' = [requests EXCEPT ![r].pc = "done"]
    /\ responses' = [responses EXCEPT ![r] =
            responses[r] \o FinalResponses(requests[r].route, ok)]
    /\ lastManualUnlockTime' =
            UnlockTimeAfter(lastManualUnlockTime, requests[r], ok)
    /\ UNCHANGED <<USAGE_PASSWORD, clock, commands>>
    /\ UNCHANGED <<envVars, savedGigachargerSessionID, callVars, wsVars,
                   textVars, jobVars, findVars>>

\* A minute passes.
Tick ==
    /\ clock < MaxClock
    /\ clock' = clock + 1
    /\ UNCHANGED <<USAGE_PASSWORD, lastManualUnlockTime, requests,
                   responses, commands>>
    /\ UNCHANGED <<envVars, savedGigachargerSessionID, callVars, wsVars,
                   textVars, jobVars, findVars>>

\* Requests for every gated route, with every password, under every
\* configuration of USAGE_PASSWORD.
GateInit ==
    /\ ServerEnvironment
    /\ USAGE_PASSWORD \in UsagePasswords
    /\ RequestsIdle
    /\ JobIdle
    /\ FindIdle

GateNext ==
    \/ \E r \in Requests : \E route \in Routes : \E password \in QueryPasswords :
            Arrive(r, route, password)
    \/ \E r \in Requests : \E ok \in BOOLEAN : Return(r, ok)

GateSpec == GateInit /\ [][GateNext]_vars

\* Request r has been handled by the middleware.
Arrived(r) == requests[r].pc # "idle"
\* An operation was invoked for request r.
Commanded(r) == \E k \in 1..Len(commands) : commands[k].req = r

\* C26: on every password-gated route the handler runs, and a command is
\* issued, only for a request whose password query parameter equals
\* USAGE_PASSWORD; any other request is answered 401 and issues no command.
C26_GateChecksPassword ==
    \A r \in Requests : Arrived(r) =>
        IF requests[r].password = USAGE_PASSWORD
        THEN Commanded(r) /\ requests[r].op # "none"
        ELSE /\ responses[r] = <<401>>
             /\ ~Commanded(r)
             /\ requests[r].pc = "done"
             /\ requests[r].op = "none"

C26_Witness ==
    /\ USAGE_PASSWORD = "secret"
    /\ requests[1].password = "guess" /\ responses[1] = <<401>>
    /\ requests[2].password = "secret" /\ responses[2] = <<200>>
    /\ Len(commands) = 1

\* C27: a request that carries no password parameter is answered 401 and
\* runs no handler, whether USAGE_PASSWORD is set or not.
C27_MissingPasswordRejected ==
    \A r \in Requests :
        (Arrived(r) /\ requests[r].password = Undefined) =>
            responses[r] = <<401>> /\ ~Commanded(r)

C27_Counterexample ==
    \E r \in Requests :
        /\ USAGE_PASSWORD = Undefined
        /\ requests[r].password = Undefined
        /\ Commanded(r)
        /\ responses[r] = <<200>>

\* C29: a request that has been handled to its end has been sent exactly
\* one response.
C29_ExactlyOneResponse ==
    \A r \in Requests : requests[r].pc = "done" => Len(responses[r]) = 1

C29_Counterexample ==
    \E r \in Requests :
        /\ requests[r].route = "/vehicle/find"
        /\ requests[r].pc = "done"
        /\ responses[r] = <<>>

\* ------------------------------------------------------------ toggle-lock

\* Requests for /vehicle/toggle-lock that pass the middleware, while time
\* passes.
ToggleRoute == "/vehicle/toggle-lock"

ToggleInit ==
    /\ ServerEnvironment
    /\ ServerIdle

ToggleNext ==
    \/ \E r \in Requests : Arrive(r, ToggleRoute, USAGE_PASSWORD)
    \/ \E r \in Requests : \E ok \in BOOLEAN : Return(r, ok)
    \/ Tick

ToggleSpec == ToggleInit /\ [][ToggleNext]_vars

\* Request r was answered 200.
Succeeded(r) == requests[r].pc = "done" /\ responses[r] = <<200>>
\* Request r is being handled in this step, up to its await.
Arriving(r) == requests[r].pc = "idle" /\ requests'[r].pc = "await"
\* What request r awaited returns in this step and r is answered 200.
Succeeding(r) == requests[r].pc = "await" /\ responses'[r] = <<200>>
\* Requests r and r + 1 did not overlap with each other or with an earlier
\* request.
NonOverlapping(r) == requests[r].alone /\ requests[r + 1].alone

\* C23: a toggle-lock request sends the lock command exactly when
\* lastManualUnlockTime is set and less than five minutes before the
\* request, and the unlock command otherwise; a successful lock leaves
\* lastManualUnlockTime null and a successful unlock leaves it at the time
\* of that request; so of two consecutive successful requests that do not
\* overlap and are less than five minutes apart, one unlocks and the other
\* locks.
C23_ToggleChoosesByUnlockTime ==
    /\ [][\A r \in Requests :
            /\ Arriving(r) =>
                 /\ requests'[r].now = clock * 60000
                 /\ requests'[r].op =
                      IF /\ lastManualUnlockTime # 0
                         /\ clock * 60000 - lastManualUnlockTime < 300000
                      THEN "lock" ELSE "unlock"
                 /\ commands' = Append(commands,
                                    [req |-> r, cmd |-> requests'[r].op])
            /\ Succeeding(r) =>
                 lastManualUnlockTime' =
                      IF requests[r].op = "lock" THEN 0 ELSE requests[r].now
        ]_vars
    /\ [](\A r \in Requests :
            ( /\ r + 1 \in Requests
              /\ Succeeded(r) /\ Succeeded(r + 1)
              /\ NonOverlapping(r)
              /\ requests[r + 1].now - requests[r].now < 300000 )
            => requests[r].op # requests[r + 1].op)

C23_Witness ==
    /\ Succeeded(1) /\ Succeeded(2)
    /\ NonOverlapping(1)
    /\ requests[1].op = "unlock" /\ requests[2].op = "lock"
    /\ requests[2].now - requests[1].now = 4 * Minute
    /\ lastManualUnlockTime = Null

\* C30: of two consecutive toggle-lock requests that both succeed and are
\* less than five minutes apart, one sent the unlock command and the other
\* the lock command, whether the requests overlap or not.
C30_TwoTogglesUnlockAndLock ==
    \A r \in Requests :
        ( /\ r + 1 \in Requests
          /\ Succeeded(r) /\ Succeeded(r + 1)
          /\ requests[r + 1].now - requests[r].now < fiveMinutes )
        => {requests[r].op, requests[r + 1].op} = {"unlock", "lock"}

C30_Counterexample ==
    /\ Succeeded(1) /\ Succeeded(2)
    /\ ~requests[2].alone
    /\ requests[1].op = "unlock" /\ requests[2].op = "unlock"
    /\ commands = <<[req |-> 1, cmd |-> "unlock"], [req |-> 2, cmd |-> "unlock"]>>

\* -------------------------------------------------------------- daily job

\* The job ends in the outer catch block.
JobFails(error) ==
    /\ jobPc' = "idle"
    /\ jobLog' = jobLog \o OuterCatch(error).logged
    /\ jobEscaped' = jobEscaped \o OuterCatch(error).thrown

\* The scheduler fires the job, which awaits isVehicleInTargetLocation.
JobStart ==
    /\ jobPc = "idle"
    /\ jobRuns < NumRuns
    /\ jobPc' = "location"
    /\ jobRuns' = jobRuns + 1
    /\ jobLocation' = NoValue
    /\ jobLog' = Append(jobLog, Message(<<"Starting job: daily charging">>))
    /\ UNCHANGED <<jobAuthorizeCalls, jobEscaped>>
    /\ UNCHANGED <<envVars, savedGigachargerSessionID, callVars, wsVars,
                   textVars, httpVars, findVars>>

\* isVehicleInTargetLocation returns (the distance it computed is result)
\* or throws; at home the job calls authorizeCharging().
LocationReturns(result) ==
    /\ jobPc = "location"
    /\ jobLocation' = result
    /\ IF result = Threw
       THEN /\ JobFails(<<"location request failed">>)
            /\ UNCHANGED jobAuthorizeCalls
       ELSE IF IsWithinRadius(result)
       THEN /\ jobPc' = "authorize"
            /\ jobAuthorizeCalls' = jobAuthorizeCalls + 1
            /\ jobLog' = Append(jobLog, Message(
                    <<"Vehicle at home location - authorizing charging...">>))
            /\ UNCHANGED jobEscaped
       ELSE /\ JobFails(<<"Daily charging job aborted - vehicle is not at home location">>)
            /\ UNCHANGED jobAuthorizeCalls
    /\ UNCHANGED jobRuns
    /\ UNCHANGED <<envVars, savedGigachargerSessionID, callVars, wsVars,
                   textVars, httpVars, findVars>>

\* The authorizeCharging() the job awaits settles.
AuthorizeSettles(settled) ==
    /\ jobPc = "authorize"
    /\ IF InnerCatch(settled) = <<>>
       THEN /\ jobPc' = "idle"
            /\ jobLog' = Append(jobLog, Message(<<"Charging authorized">>))
            /\ UNCHANGED jobEscaped
       ELSE JobFails(InnerCatch(settled))
    /\ UNCHANGED <<jobRuns, jobLocation, jobAuthorizeCalls>>
    /\ UNCHANGED <<envVars, savedGigachargerSessionID, callVars, wsVars,
                   textVars, httpVars, findVars>>

JobInit ==
    /\ ServerEnvironment
    /\ ServerIdle

JobNext ==
    \/ JobStart
    \/ \E result \in Distances \cup {Threw} : LocationReturns(result)
    \/ \E settled \in {Success} \cup Failures : AuthorizeSettles(settled)

JobSpec == JobInit /\ [][JobNext]_vars

\* The lines logged as errors, and the lines that report a success.
ErrorLines == {k \in 1..Len(jobLog) : jobLog[k].level = "error"}
AuthorizedLines ==
    {k \in 1..Len(jobLog) : jobLog[k] = Message(<<"Charging authorized">>)}

\* C28: the job calls authorizeCharging only in the step in which the
\* location check returned a distance within the 100 m radius, and not when
\* the check threw or returned anything else; every run ends with exactly
\* one of "Charging authorized" and a logged error, and no error leaves the
\* job.
C28_JobAuthorizesOnlyAtHome ==
    /\ [][/\ jobAuthorizeCalls' # jobAuthorizeCalls =>
               /\ jobPc = "location"
               /\ jobLocation'.kind = "number"
               /\ jobLocation'.num <= 100 * jobLocation'.den
               /\ jobAuthorizeCalls' = jobAuthorizeCalls + 1
          /\ (jobPc = "location" /\ jobPc' = "idle") =>
               /\ jobAuthorizeCalls' = jobAuthorizeCalls
               /\ Len(jobLog') = Len(jobLog) + 1
               /\ jobLog'[Len(jobLog')].level = "error"
         ]_vars
    /\ [](/\ jobEscaped = <<>>
          /\ jobPc = "idle" =>
                Cardinality(ErrorLines) + Cardinality(AuthorizedLines)
                    = jobRuns
          /\ jobAuthorizeCalls <= jobRuns
          /\ Cardinality(AuthorizedLines) <= jobAuthorizeCalls)

C28_Witness ==
    /\ jobPc = "idle"
    /\ jobRuns = 2
    /\ jobAuthorizeCalls = 1
    /\ jobLocation = JsNumber(101, 1)
    /\ Len(jobLog) = 5
    /\ jobLog[3] = ErrorLine(<<"Daily charging job failed: ",
                               "Could not authorize charging: ", Timeout>>)
    /\ jobLog[5].level = "error"

\* ------------------------------------------------- toggle-lock: failures

\* What request r awaited throws in this step.
Failing(r) ==
    /\ requests[r].pc = "await"
    /\ requests'[r].pc = "done"
    /\ responses'[r] # <<200>>
\* Request r was answered 500.
Failed(r) == requests[r].pc = "done" /\ responses[r] = <<500>>
\* Request q and every request before it arrived while no request was
\* being handled.
AllAloneUpTo(q) == \A p \in Requests : p <= q => requests[p].alone
\* The successful requests before q.
SucceededBefore(q) == {p \in Requests : p < q /\ Succeeded(p)}
\* The last of a non-empty set of requests.
LastOf(S) == CHOOSE p \in S : \A o \in S : o <= p

\* C31: when the command of a toggle-lock request fails, the request is
\* answered 500 and lastManualUnlockTime keeps its value; a later request
\* therefore decides as if the failed ones had never arrived: it locks
\* exactly when the last successful request before it unlocked less than
\* five minutes earlier.
C31_FailedToggleLeavesNoTrace ==
    /\ [][\A r \in Requests : Failing(r) =>
            /\ responses'[r] = <<500>>
            /\ lastManualUnlockTime' = lastManualUnlockTime
            /\ commands' = commands]_vars
    /\ [](\A q \in Requests :
            (Arrived(q) /\ AllAloneUpTo(q)) =>
                requests[q].op =
                    IF /\ SucceededBefore(q) # {}
                       /\ requests[LastOf(SucceededBefore(q))].op = "unlock"
                       /\ requests[q].now
                            - requests[LastOf(SucceededBefore(q))].now < 300000
                    THEN "lock" ELSE "unlock")

C31_Witness ==
    /\ Succeeded(1) /\ requests[1].op = "unlock"
    /\ Failed(2) /\ requests[2].op = "lock" /\ requests[2].alone
    /\ lastManualUnlockTime = requests[1].now
    /\ lastManualUnlockTime # Null

\* ------------------------------------------------------------ findVehicle

\* findVehicle throws: the promise it returned is rejected.
FindThrows(error) ==
    /\ findPc' = "done"
    /\ findResult' = error
    /\ UNCHANGED <<findIndex, findCommands>>

\* The for loop at its test with the loop variable at i: the next flash is
\* posted, or the function returns.
FlashLoop(i) ==
    /\ findIndex' = i
    /\ IF i < numberOfFlashes
       THEN /\ findCommands' = Append(findCommands, Flash)
            /\ findPc' = "flash"
            /\ UNCHANGED findResult
       ELSE /\ findPc' = "done"
            /\ findResult' = "returned"
            /\ UNCHANGED findCommands

\* findVehicle(n, horn) is called: the range check, then the POST of /wake.
FindCall(n, horn) ==
    /\ findPc = "idle"
    /\ numberOfFlashes' = n
    /\ useHorn' = horn
    /\ IF FlashesOutOfRange(n)
       THEN FindThrows(RangeError)
       ELSE /\ findCommands' = Append(findCommands, Wake)
            /\ findPc' = "wake"
            /\ UNCHANGED <<findIndex, findResult>>
    /\ UNCHANGED findReply
    /\ UNCHANGED <<envVars, savedGigachargerSessionID, callVars, wsVars,
                   textVars, httpVars, jobVars>>

\* The POST of /wake settles.
WakeReturns(reply) ==
    /\ findPc = "wake"
    /\ findReply' = reply
    /\ IF reply = "threw" THEN FindThrows(PostError)
       ELSE IF reply = "false" THEN FindThrows(WakeError)
       ELSE IF useHorn
       THEN /\ findCommands' = Append(findCommands, Honk)
            /\ findPc' = "honk"
            /\ UNCHANGED <<findIndex, findResult>>
       ELSE FlashLoop(0)
    /\ UNCHANGED <<numberOfFlashes, useHorn>>
    /\ UNCHANGED <<envVars, savedGigachargerSessionID, callVars, wsVars,
                   textVars, httpVars, jobVars>>

\* The POST of /command/honk settles.
HonkReturns(reply) ==
    /\ findPc = "honk"
    /\ findReply' = reply
    /\ IF reply = "threw" THEN FindThrows(PostError)
       ELSE IF reply = "false" THEN FindThrows(HornError)
       ELSE FlashLoop(0)
    /\ UNCHANGED <<numberOfFlashes, useHorn>>
    /\ UNCHANGED <<envVars, savedGigachargerSessionID, callVars, wsVars,
                   textVars, httpVars, jobVars>>

\* The POST of /command/flash of iteration findIndex settles.
FlashReturns(reply) ==
    /\ findPc = "flash"
    /\ findReply' = reply
    /\ IF reply = "threw" THEN FindThrows(PostError)
       ELSE IF reply = "false" THEN FindThrows(FlashError)
       ELSE FlashLoop(findIndex + 1)
    /\ UNCHANGED <<numberOfFlashes, useHorn>>
    /\ UNCHANGED <<envVars, savedGigachargerSessionID, callVars, wsVars,
                   textVars, httpVars, jobVars>>

FindInit ==
    /\ ServerEnvironment
    /\ ServerIdle

FindNext ==
    \/ \E n \in FlashCounts : \E horn \in BOOLEAN : FindCall(n, horn)
    \/ \E reply \in PostReplies : WakeReturns(reply)
    \/ \E reply \in PostReplies : HonkReturns(reply)
    \/ \E reply \in PostReplies : FlashReturns(reply)

FindSpec == FindInit /\ [][FindNext]_vars

\* k flash commands.
Flashes(k) == [j \in 1..k |-> "/command/flash?retry_duration=5"]
\* The commands of a complete sequence: wake, honk if asked for, then the
\* flashes asked for.
FullSequence ==
    <<"/wake">> \o (IF useHorn THEN <<"/command/honk">> ELSE <<>>)
        \o Flashes(numberOfFlashes)
\* a is an initial part of b.
IsPrefix(a, b) == Len(a) <= Len(b) /\ a = SubSeq(b, 1, Len(a))
FindCalled == findPc # "idle"
FindErrors == {RangeError, WakeError, HornError, FlashError, PostError}

\* C32: findVehicle issues no command when numberOfFlashes is outside
\* 0..5; otherwise the commands issued are an initial part of wake, honk
\* (only if useHorn), numberOfFlashes flashes, each posted after the one
\* before it returned; a command that does not report success ends the
\* call with an error and no command follows it; the call returns only
\* after the complete sequence, with exactly numberOfFlashes flashes.
C32_FindVehicleSequence ==
    /\ [](FindCalled =>
            IF numberOfFlashes < 0 \/ numberOfFlashes > 5
            THEN findCommands = <<>> /\ findResult \in FindErrors
            ELSE /\ findCommands # <<>>
                 /\ IsPrefix(findCommands, FullSequence)
                 /\ findResult = "returned" => findCommands = FullSequence
                 /\ (findPc = "done" /\ findReply = "true") =>
                        findResult = "returned"
                 /\ findReply \in {"false", "threw"} =>
                        findPc = "done" /\ findResult \in FindErrors)
    /\ [][/\ findPc = "done" => findCommands' = findCommands
          /\ Len(findCommands') <= Len(findCommands) + 1
          /\ findReply' \in {"false", "threw"} =>
                 findCommands' = findCommands
         ]_vars

C32_Witness ==
    /\ numberOfFlashes = 2 /\ useHorn
    /\ findResult = "returned"
    /\ findCommands = <<Wake, Honk, Flash, Flash>>

====
